---------------------------- MODULE Spec2Model ----------------------------
(***************************************************************************)
(* dnuz: download a ZIP archive over HTTP, unzip it below an output root   *)
(* and fix the entry names stored in a legacy 8-bit code page.             *)
(*                                                                         *)
(* The model follows cmd/root.go: RootCmd.Args (configuration check),      *)
(* RootCmd.Run (fetch, parse, per-entry resolve and materialize) and       *)
(* getEncoding/getDecoder/getEncoder.  Go strings are byte sequences, so   *)
(* names and paths are sequences of bytes (0..255); strings.ToLower,       *)
(* filepath.Join/Clean/Dir, the charmap transforms and os.MkdirAll /       *)
(* os.OpenFile are operators computing what the Go functions compute.      *)
(***************************************************************************)
EXTENDS Integers, Sequences, FiniteSets, TLC

(***************************************************************************)
(* Bounds of the model.                                                    *)
(***************************************************************************)
\* Longest archive (number of entries) served by the remote end.
MaxEntries == 2

(***************************************************************************)
(* Bytes, runes and UTF-8 (unicode/utf8).                                  *)
(***************************************************************************)
\* utf8.RuneError, U+FFFD.
RuneError == 65533

\* utf8.EncodeRune for runes of the Basic Multilingual Plane.
Utf8Enc(r) ==
    IF r < 128 THEN << r >>
    ELSE IF r < 2048 THEN << 192 + (r \div 64), 128 + (r % 64) >>
    ELSE << 224 + (r \div 4096), 128 + ((r \div 64) % 64), 128 + (r % 64) >>

IsCont(b) == b >= 128 /\ b <= 191

\* utf8.DecodeRune on s[i..]: the rune and its width; an invalid or
\* incomplete encoding is (RuneError, 1).  Four-byte forms do not occur in
\* the modelled inputs and are not decoded.
DecodeRuneAt(s, i) ==
    LET b0 == s[i]
        n  == Len(s) - i + 1
    IN  IF b0 < 128 THEN [r |-> b0, size |-> 1]
        ELSE IF b0 >= 194 /\ b0 <= 223 /\ n >= 2 /\ IsCont(s[i+1])
             THEN [r |-> (b0 - 192) * 64 + (s[i+1] - 128), size |-> 2]
        ELSE IF b0 >= 224 /\ b0 <= 239 /\ n >= 3
                /\ IsCont(s[i+1]) /\ IsCont(s[i+2])
                /\ (b0 = 224 => s[i+1] >= 160)
                /\ (b0 = 237 => s[i+1] <= 159)
             THEN [r |-> (b0 - 224) * 4096 + (s[i+1] - 128) * 64 + (s[i+2] - 128),
                   size |-> 3]
        ELSE [r |-> RuneError, size |-> 1]

\* unicode.ToLower on the ranges the supported code pages hold: ASCII
\* letters, the Cyrillic capitals U+0400..U+042F and U+0490.
ToLowerRune(r) ==
    IF r >= 65 /\ r <= 90 THEN r + 32
    ELSE IF r >= 1040 /\ r <= 1071 THEN r + 32
    ELSE IF r >= 1024 /\ r <= 1039 THEN r + 80
    ELSE IF r = 1168 THEN 1169
    ELSE r

RECURSIVE LowerFrom(_, _)
LowerFrom(s, i) ==
    IF i > Len(s) THEN << >>
    ELSE LET d == DecodeRuneAt(s, i)
         IN  Utf8Enc(ToLowerRune(d.r)) \o LowerFrom(s, i + d.size)

\* strings.ToLower: every rune mapped by unicode.ToLower and re-encoded; an
\* invalid byte comes out as U+FFFD.
ToLower(s) == LowerFrom(s, 1)

(***************************************************************************)
(* path/filepath on a slash-separated system.                              *)
(***************************************************************************)
Slash == << 47 >>
Dot == << 46 >>
DotDot == << 46, 46 >>

RECURSIVE SplitFrom(_, _, _)
\* The slash-separated elements of s[i..], cur being the element in progress.
SplitFrom(s, i, cur) ==
    IF i > Len(s) THEN << cur >>
    ELSE IF s[i] = 47 THEN << cur >> \o SplitFrom(s, i + 1, << >>)
    ELSE SplitFrom(s, i + 1, Append(cur, s[i]))

Elements(s) == SplitFrom(s, 1, << >>)

RECURSIVE CleanElems(_, _, _, _)
\* filepath.Clean's scan: drop empty and "." elements, let ".." remove the
\* element before it; at the root ".." is dropped, in a relative path a
\* leading ".." stays.
CleanElems(elems, i, out, rooted) ==
    IF i > Len(elems) THEN out
    ELSE LET e == elems[i]
         IN  IF e = << >> \/ e = Dot THEN CleanElems(elems, i + 1, out, rooted)
             ELSE IF e = DotDot
                  THEN IF Len(out) > 0 /\ out[Len(out)] # DotDot
                       THEN CleanElems(elems, i + 1, SubSeq(out, 1, Len(out) - 1), rooted)
                       ELSE IF rooted THEN CleanElems(elems, i + 1, out, rooted)
                       ELSE CleanElems(elems, i + 1, Append(out, e), rooted)
             ELSE CleanElems(elems, i + 1, Append(out, e), rooted)

RECURSIVE JoinElems(_, _)
JoinElems(elems, i) ==
    IF i > Len(elems) THEN << >>
    ELSE IF i = Len(elems) THEN elems[i]
    ELSE elems[i] \o Slash \o JoinElems(elems, i + 1)

\* filepath.Clean.
Clean(p) ==
    IF p = << >> THEN Dot
    ELSE LET rooted == p[1] = 47
             body == JoinElems(CleanElems(Elements(p), 1, << >>, rooted), 1)
         IN  IF rooted THEN Slash \o body
             ELSE IF body = << >> THEN Dot ELSE body

\* filepath.Join(a, b): empty elements are ignored, the rest joined by a
\* slash and cleaned.
Join(a, b) ==
    IF a = << >> /\ b = << >> THEN << >>
    ELSE IF a = << >> THEN Clean(b)
    ELSE IF b = << >> THEN Clean(a)
    ELSE Clean(a \o Slash \o b)

RECURSIVE LastSlash(_, _)
\* Index of the last slash of p[1..i], 0 if there is none.
LastSlash(p, i) ==
    IF i = 0 THEN 0 ELSE IF p[i] = 47 THEN i ELSE LastSlash(p, i - 1)

\* filepath.Dir: all but the last element, cleaned.
Dir(p) == Clean(SubSeq(p, 1, LastSlash(p, Len(p))))

IsPrefix(a, b) == Len(a) <= Len(b) /\ SubSeq(b, 1, Len(a)) = a

\* p and its ancestors that os.MkdirAll visits: every prefix of p ending
\* before a slash, and p itself (the root directory excluded).
Prefixes(p) ==
    { SubSeq(p, 1, k) : k \in { j \in 1..Len(p) : j = Len(p) \/ p[j+1] = 47 } }


(***************************************************************************)
(* golang.org/x/text: charmap.CodePage866, charmap.Windows1251 and         *)
(* encoding.Nop, as used through transform.Transformer.Transform.          *)
(***************************************************************************)
\* charmap.CodePage866: the runes of bytes 0x80..0xFF.
CodePage866 ==
    << 1040, 1041, 1042, 1043, 1044, 1045, 1046, 1047,
       1048, 1049, 1050, 1051, 1052, 1053, 1054, 1055,
       1056, 1057, 1058, 1059, 1060, 1061, 1062, 1063,
       1064, 1065, 1066, 1067, 1068, 1069, 1070, 1071,
       1072, 1073, 1074, 1075, 1076, 1077, 1078, 1079,
       1080, 1081, 1082, 1083, 1084, 1085, 1086, 1087,
       9617, 9618, 9619, 9474, 9508, 9569, 9570, 9558,
       9557, 9571, 9553, 9559, 9565, 9564, 9563, 9488,
       9492, 9524, 9516, 9500, 9472, 9532, 9566, 9567,
       9562, 9556, 9577, 9574, 9568, 9552, 9580, 9575,
       9576, 9572, 9573, 9561, 9560, 9554, 9555, 9579,
       9578, 9496, 9484, 9608, 9604, 9612, 9616, 9600,
       1088, 1089, 1090, 1091, 1092, 1093, 1094, 1095,
       1096, 1097, 1098, 1099, 1100, 1101, 1102, 1103,
       1025, 1105, 1028, 1108, 1031, 1111, 1038, 1118,
       176, 8729, 183, 8730, 8470, 164, 9632, 160 >>

\* charmap.Windows1251: the runes of bytes 0x80..0xFF (0x98 is unassigned
\* and decodes to U+FFFD).
Windows1251 ==
    << 1026, 1027, 8218, 1107, 8222, 8230, 8224, 8225,
       8364, 8240, 1033, 8249, 1034, 1036, 1035, 1039,
       1106, 8216, 8217, 8220, 8221, 8226, 8211, 8212,
       65533, 8482, 1113, 8250, 1114, 1116, 1115, 1119,
       160, 1038, 1118, 1032, 164, 1168, 166, 167,
       1025, 169, 1028, 171, 172, 173, 174, 1031,
       176, 177, 1030, 1110, 1169, 181, 182, 183,
       1105, 8470, 1108, 187, 1112, 1029, 1109, 1111,
       1040, 1041, 1042, 1043, 1044, 1045, 1046, 1047,
       1048, 1049, 1050, 1051, 1052, 1053, 1054, 1055,
       1056, 1057, 1058, 1059, 1060, 1061, 1062, 1063,
       1064, 1065, 1066, 1067, 1068, 1069, 1070, 1071,
       1072, 1073, 1074, 1075, 1076, 1077, 1078, 1079,
       1080, 1081, 1082, 1083, 1084, 1085, 1086, 1087,
       1088, 1089, 1090, 1091, 1092, 1093, 1094, 1095,
       1096, 1097, 1098, 1099, 1100, 1101, 1102, 1103 >>

\* The encodings getEncoding can return.
Charmap(enc) == IF enc = "cp866" THEN CodePage866 ELSE Windows1251

RECURSIVE NopFrom(_, _, _, _)
NopFrom(src, i, out, cap) ==
    IF i > Len(src) THEN [out |-> out, err |-> "nil"]
    ELSE IF Len(out) >= cap THEN [out |-> out, err |-> "ErrShortDst"]
    ELSE NopFrom(src, i + 1, Append(out, src[i]), cap)

RECURSIVE DecodeFrom(_, _, _, _, _)
\* charmapDecoder.Transform: an ASCII byte is copied, any other byte becomes
\* the UTF-8 encoding of its rune; the loop stops with ErrShortDst when the
\* next output does not fit into dst.
DecodeFrom(tab, src, i, out, cap) ==
    IF i > Len(src) THEN [out |-> out, err |-> "nil"]
    ELSE LET c == src[i]
             enc == IF c < 128 THEN << c >> ELSE Utf8Enc(tab[c - 127])
         IN  IF Len(out) + Len(enc) > cap
             THEN [out |-> out, err |-> "ErrShortDst"]
             ELSE DecodeFrom(tab, src, i + 1, out \o enc, cap)

\* utf8.FullRune on s[i..]: FALSE only when the bytes are a proper prefix of
\* a multi-byte encoding.
FullRune(s, i) ==
    LET b0 == s[i]
        n  == Len(s) - i + 1
        need == IF b0 >= 194 /\ b0 <= 223 THEN 2
                ELSE IF b0 >= 224 /\ b0 <= 239 THEN 3
                ELSE IF b0 >= 240 /\ b0 <= 244 THEN 4
                ELSE 1
    IN  \/ n >= need
        \/ \E k \in 1..(n - 1) : ~IsCont(s[i + k])

RECURSIVE EncodeFrom(_, _, _, _, _)
\* charmapEncoder.Transform with atEOF = false: ASCII is copied, a rune of
\* the code page becomes its byte, a rune outside it is a repertoire error,
\* a truncated rune at the end of src is ErrShortSrc.
EncodeFrom(tab, src, i, out, cap) ==
    IF i > Len(src) THEN [out |-> out, err |-> "nil"]
    ELSE IF Len(out) >= cap THEN [out |-> out, err |-> "ErrShortDst"]
    ELSE IF src[i] < 128 THEN EncodeFrom(tab, src, i + 1, Append(out, src[i]), cap)
    ELSE LET d == DecodeRuneAt(src, i)
         IN  IF d.size = 1
             THEN [out |-> out,
                   err |-> IF ~FullRune(src, i) THEN "ErrShortSrc"
                           ELSE "RepertoireError"]
             ELSE IF \E k \in 1..128 : tab[k] = d.r
                  THEN EncodeFrom(tab, src, i + d.size,
                           Append(out, 127 + (CHOOSE k \in 1..128 : tab[k] = d.r)),
                           cap)
                  ELSE [out |-> out, err |-> "RepertoireError"]

\* decoder.Transform(dst, src, false) with len(dst) = cap, for the decoder
\* of encoding enc ("nop" is encoding.Nop, whose transform copies).
DecoderTransform(enc, src, cap) ==
    IF enc = "nop" THEN NopFrom(src, 1, << >>, cap)
    ELSE DecodeFrom(Charmap(enc), src, 1, << >>, cap)

\* encoder.Transform(dst, src, false) with len(dst) = cap.
EncoderTransform(enc, src, cap) ==
    IF enc = "nop" THEN NopFrom(src, 1, << >>, cap)
    ELSE EncodeFrom(Charmap(enc), src, 1, << >>, cap)

(***************************************************************************)
(* getEncoding, getDecoder, getEncoder.                                    *)
(***************************************************************************)
N866 == << 56, 54, 54 >>                                          \* "866"
NCp866 == << 99, 112, 56, 54, 54 >>                               \* "cp866"
N1251 == << 49, 50, 53, 49 >>                                     \* "1251"
NWindows1251 == << 119, 105, 110, 100, 111, 119, 115, 45, 49, 50, 53, 49 >>
                                                                  \* "windows-1251"

\* getEncoding comparing the name as given, without strings.ToLower.
getEncodingCaseSensitive(encName) ==
    IF encName # << >>
    THEN IF encName = N866 THEN [e |-> "cp866", err |-> FALSE]
         ELSE IF encName = NCp866 THEN [e |-> "cp866", err |-> FALSE]
         ELSE IF encName = N1251 THEN [e |-> "cp1251", err |-> FALSE]
         ELSE IF encName = NWindows1251 THEN [e |-> "cp1251", err |-> FALSE]
         ELSE [e |-> "nil", err |-> TRUE]
    ELSE [e |-> "nop", err |-> FALSE]

\* getEncoding: the encoding of a name and whether the name is an error.
getEncoding(encName) ==
    IF encName # << >>
    THEN LET l == ToLower(encName)
         IN  IF l = N866 THEN [e |-> "cp866", err |-> FALSE]
             ELSE IF l = NCp866 THEN [e |-> "cp866", err |-> FALSE]
             ELSE IF l = N1251 THEN [e |-> "cp1251", err |-> FALSE]
             ELSE IF l = NWindows1251 THEN [e |-> "cp1251", err |-> FALSE]
             ELSE [e |-> "nil", err |-> TRUE]
    ELSE [e |-> "nop", err |-> FALSE]

\* getDecoder: the decoder of getEncoding's encoding, nil with its error.
getDecoder(encName) ==
    LET g == getEncoding(encName)
    IN  IF g.err THEN [t |-> "nil", err |-> TRUE]
        ELSE IF g.e = "nil" THEN [t |-> "nil", err |-> FALSE]
        ELSE [t |-> g.e, err |-> FALSE]

\* getEncoder: the encoder of getEncoding's encoding, nil with its error.
getEncoder(encName) ==
    LET g == getEncoding(encName)
    IN  IF g.err THEN [t |-> "nil", err |-> TRUE]
        ELSE IF g.e = "nil" THEN [t |-> "nil", err |-> FALSE]
        ELSE [t |-> g.e, err |-> FALSE]

(***************************************************************************)
(* The inputs of a run: the configuration (flags), what the remote end     *)
(* serves, and the file system the process starts in.                      *)
(***************************************************************************)
\* File modes as sets of permission bits.
Mode644 == {"ur", "uw", "gr", "or"}
Mode755 == {"ur", "uw", "ux", "gr", "gx", "or", "ox"}
Mode555 == {"ur", "ux", "gr", "gx", "or", "ox"}
Mode600 == {"ur", "uw"}
Umask022 == {"gw", "ow"}

POut == << 47, 111, 117, 116 >>                                  \* "/out"
POutUpper == << 47, 79, 117, 116 >>                              \* "/Out"
POutSub == << 47, 111, 117, 116, 47, 115, 117, 98 >>             \* "/out/sub"
POutSubA == << 47, 111, 117, 116, 47, 115, 117, 98, 47, 97, 46, 116, 120, 116 >>
                                                                 \* "/out/sub/a.txt"
NSub == << 115, 117, 98, 47 >>                                   \* "sub/"
NSubA == << 115, 117, 98, 47, 97, 46, 116, 120, 116 >>           \* "sub/a.txt"

\* zip.File as the loop reads it: Name, NonUTF8, FileInfo().IsDir(), Mode()
\* and the content Open() streams.
EDirSub == [Name |-> NSub, NonUTF8 |-> FALSE, IsDir |-> TRUE,
            Mode |-> Mode755, Content |-> "none"]
EFileSubA == [Name |-> NSubA, NonUTF8 |-> FALSE, IsDir |-> FALSE,
              Mode |-> Mode644, Content |-> "c1"]
\* "SUB/A.TXT": differs from "sub/a.txt" in letter case only; read-only.
EFileSubAUpper == [Name |-> << 83, 85, 66, 47, 65, 46, 84, 88, 84 >>,
                   NonUTF8 |-> FALSE, IsDir |-> FALSE,
                   Mode |-> Mode555, Content |-> "c2"]
\* "../e": a name with a parent-directory segment.
EFileDotDot == [Name |-> << 46, 46, 47, 101 >>, NonUTF8 |-> FALSE,
                IsDir |-> FALSE, Mode |-> Mode644, Content |-> "c3"]
\* "ФАЙЛ.TXT" stored as Windows-1251 bytes, flagged non-UTF-8.
EFileCyr == [Name |-> << 212, 192, 201, 203, 46, 84, 88, 84 >>,
             NonUTF8 |-> TRUE, IsDir |-> FALSE,
             Mode |-> Mode644, Content |-> "c4"]
\* "№" stored as the Windows-1251 byte 0xB9, flagged non-UTF-8.
EFileNumero == [Name |-> << 185 >>, NonUTF8 |-> TRUE, IsDir |-> FALSE,
                Mode |-> Mode644, Content |-> "c5"]
\* "Sub/A.txt/": a directory entry whose path is that of the file entries.
EDirSubA == [Name |-> << 83, 117, 98, 47, 65, 46, 116, 120, 116, 47 >>,
             NonUTF8 |-> FALSE, IsDir |-> TRUE,
             Mode |-> Mode755, Content |-> "none"]
\* "Ж" stored as UTF-8 with the UTF-8 flag set (NonUTF8 false).
EFileZhe == [Name |-> << 208, 150 >>, NonUTF8 |-> FALSE, IsDir |-> FALSE,
             Mode |-> Mode644, Content |-> "c6"]

EntryPool == { EDirSub, EFileSubA, EFileSubAUpper, EFileDotDot, EFileCyr,
               EFileNumero, EDirSubA, EFileZhe }

\* The archives the remote end may serve: up to MaxEntries distinct entries
\* of the pool, in any order.
Archives ==
    { a \in UNION { [1..n -> EntryPool] : n \in 1..MaxEntries } :
        \A j, k \in DOMAIN a : j # k => a[j] # a[k] }

\* What the URL serves: a ZIP archive or bytes that are no ZIP archive.
Bodies == { [zip |-> TRUE, File |-> a] : a \in Archives }
            \cup { [zip |-> FALSE, File |-> << >>] }

\* Encoding names given on the command line.
EncNames ==
    { << >>, N866, NCp866, N1251, NWindows1251,
      << 67, 80, 56, 54, 54 >>,                                   \* "CP866"
      << 87, 105, 110, 100, 111, 119, 115, 45, 49, 50, 53, 49 >>, \* "Windows-1251"
      << 117, 116, 102, 45, 56 >>,                                \* "utf-8"
      << 99, 112, 49, 50, 53, 50 >>,                              \* "cp1252"
      << 32, 56, 54, 54 >> }                                      \* " 866"

\* The file systems a run starts in: an empty one, and one left by an
\* earlier run (with a umask that clears the group and other write bits).
EmptyFS == [dirs |-> { Slash }, files |-> << >>, umask |-> {}]
EarlierRunFS ==
    [dirs |-> { Slash, POut, POutSub },
     files |-> (POutSubA :> [mode |-> Mode600, data |-> "old"]),
     umask |-> Umask022]

\* The processes a run may be: an unprivileged owner of the output tree on
\* either file system, or the superuser (whom file modes do not stop).
Environments ==
    { [fs |-> EmptyFS, privileged |-> FALSE],
      [fs |-> EarlierRunFS, privileged |-> FALSE],
      [fs |-> EmptyFS, privileged |-> TRUE] }

\* The accepted pairs of input and output encoding names of the runs that
\* range over the archives.
EncPairs ==
    { << << >>, << >> >>,
      << N1251, << >> >>,
      << << 67, 80, 56, 54, 54 >>, << >> >>,
      << N1251, NCp866 >> }

VARIABLES
    srcUrl,          \* --src-url
    nonUtf8EncName,  \* --nonUtf8-enc
    outEncName,      \* --out-enc
    outPath,         \* --out-path
    decoder,         \* the global decoder: "nil", "nop", "cp866", "cp1251"
    encoder,         \* the global encoder
    remote,          \* what the URL serves
    umask,           \* the process's umask
    privileged,      \* the process is the superuser
    pc,              \* where the run is
    httpCalls,       \* number of http.Get calls issued
    bodyOpen,        \* res.Body is open
    d,               \* the downloaded bytes: [got, zip, File]
    parsed,          \* zip.NewReader has returned the archive index
    i,               \* index into r.File of the entry being processed
    fpath,           \* the resolved path of the current entry
    filenames,       \* the paths resolved so far
    openRc,          \* entries whose content stream rc is open
    outFile,         \* paths of the output file handles that are open
    dirs,            \* the directories of the file system
    files,           \* the regular files: path -> [mode, data]
    panicErr,        \* the error the run panicked with, "nil" if none
    fsErrors,        \* history: [at, op, env] of every failed file system call
    touched          \* history: paths created or truncated by the run

vars == << srcUrl, nonUtf8EncName, outEncName, outPath, decoder, encoder,
           remote, umask, privileged, pc, httpCalls, bodyOpen, d, parsed, i, fpath,
           filenames, openRc, outFile, dirs, files, panicErr, fsErrors,
           touched >>

\* What a run never changes.
config ==
    << srcUrl, nonUtf8EncName, outEncName, outPath, remote, umask, privileged >>

InitRun(env) ==
    /\ umask = env.fs.umask
    /\ privileged = env.privileged
    /\ dirs = env.fs.dirs
    /\ files = env.fs.files
    /\ decoder = "nil"
    /\ encoder = "nil"
    /\ pc = "args"
    /\ httpCalls = 0
    /\ bodyOpen = FALSE
    /\ d = [got |-> FALSE, zip |-> FALSE, File |-> << >>]
    /\ parsed = FALSE
    /\ i = 0
    /\ fpath = << >>
    /\ filenames = << >>
    /\ openRc = {}
    /\ outFile = {}
    /\ panicErr = "nil"
    /\ fsErrors = {}
    /\ touched = {}

\* Runs over every pair of encoding names and an empty or non-empty URL,
\* on one small archive.
InitNames ==
    /\ srcUrl \in {"", "http://host/a.zip"}
    /\ nonUtf8EncName \in EncNames
    /\ outEncName \in EncNames
    /\ outPath = POut
    /\ remote = [zip |-> TRUE, File |-> << EFileSubA >>]
    /\ InitRun([fs |-> EmptyFS, privileged |-> FALSE])

\* Runs over every body, output root and environment, under accepted
\* encoding names.
InitBodies ==
    /\ srcUrl = "http://host/a.zip"
    /\ \E pair \in EncPairs : nonUtf8EncName = pair[1] /\ outEncName = pair[2]
    /\ outPath \in { POut, POutUpper }
    /\ remote \in Bodies
    /\ \E env \in Environments : InitRun(env)

Init == InitNames \/ InitBodies

(***************************************************************************)
(* The file system calls of the materializer.                              *)
(***************************************************************************)
\* os.MkdirAll(path, os.ModePerm): nothing to do when path is a directory;
\* ENOTDIR when path or one of its ancestors is a regular file; otherwise
\* every missing ancestor and path itself become directories.  (A failure
\* of the environment is taken to strike before anything is created.)
MkdirAll(ds, fs, path) ==
    IF \E a \in Prefixes(path) : a \in DOMAIN fs
    THEN [ok |-> FALSE, dirs |-> ds, made |-> {}]
    ELSE [ok |-> TRUE, dirs |-> ds \cup Prefixes(path),
          made |-> Prefixes(path) \ ds]

\* os.OpenFile with O_EXCL in place of O_TRUNC: an existing file is an error.
OpenFileExcl(ds, fs, um, priv, path, perm) ==
    IF path \in ds \/ Dir(path) \notin ds \/ path \in DOMAIN fs
    THEN [ok |-> FALSE, files |-> fs]
    ELSE [ok |-> TRUE,
          files |-> (path :> [mode |-> perm \ um, data |-> ""]) @@ fs]

\* os.OpenFile(path, O_WRONLY|O_CREATE|O_TRUNC, perm): EISDIR on a directory,
\* ENOENT/ENOTDIR when the parent is no directory, EACCES on an existing file
\* without the owner's write bit (unless privileged); an existing file is
\* truncated and keeps its mode; a new file gets perm less the umask.
OpenFile(ds, fs, um, priv, path, perm) ==
    IF path \in ds \/ Dir(path) \notin ds
    THEN [ok |-> FALSE, files |-> fs]
    ELSE IF path \in DOMAIN fs
    THEN IF "uw" \notin fs[path].mode /\ ~priv
         THEN [ok |-> FALSE, files |-> fs]
         ELSE [ok |-> TRUE,
               files |-> [fs EXCEPT ![path] =
                              [mode |-> fs[path].mode, data |-> ""]]]
    ELSE [ok |-> TRUE,
          files |-> (path :> [mode |-> perm \ um, data |-> ""]) @@ fs]

(***************************************************************************)
(* The name resolver, lines 100-121 of RootCmd.Run.                        *)
(***************************************************************************)
\* len(fname)*2, len(fpath)*2: the size of the buffer a transform writes to.
BufLen(src) == Len(src) * 2

\* Lines 100-111: fname, decoded when the entry is flagged NonUTF8 and a
\* decoder is set.
DecodeName(dec, f) ==
    IF f.NonUTF8 /\ dec # "nil"
    THEN LET t == DecoderTransform(dec, f.Name, BufLen(f.Name))
         IN  [err |-> t.err, fname |-> t.out]
    ELSE [err |-> "nil", fname |-> f.Name]

\* Line 112 with only the entry's name lower-cased, not the joined path.
JoinLowerNameOnly(root, fname) == Join(root, ToLower(fname))

\* Line 112: the name joined onto the output root, the whole lower-cased.
JoinLower(root, fname) == ToLower(Join(root, fname))

\* Lines 113-120: the path re-encoded when an encoder is set.
EncodePath(enc, path) ==
    IF enc # "nil"
    THEN LET t == EncoderTransform(enc, path, BufLen(path))
         IN  [err |-> t.err, fpath |-> t.out]
    ELSE [err |-> "nil", fpath |-> path]

\* Lines 100-120: the resolved path of entry f, or the error of the
\* transform that failed (on which the code panics).
ResolvePath(dec, enc, root, f) ==
    LET n == DecodeName(dec, f)
    IN  IF n.err # "nil" THEN [err |-> n.err, fpath |-> << >>]
        ELSE EncodePath(enc, JoinLower(root, n.fname))

(***************************************************************************)
(* RootCmd.Args, lines 54-68.                                              *)
(***************************************************************************)
Args ==
    /\ pc = "args"
    /\ IF srcUrl = ""
       THEN /\ pc' = "cfgerr"
            /\ UNCHANGED << decoder, encoder >>
       ELSE LET dec == getDecoder(nonUtf8EncName)
                enc == getEncoder(outEncName)
            IN  /\ decoder' = dec.t
                /\ IF dec.err
                   THEN pc' = "cfgerr" /\ UNCHANGED encoder
                   ELSE /\ encoder' = enc.t
                        /\ pc' = IF enc.err THEN "cfgerr" ELSE "get"
    /\ UNCHANGED << config, panicErr, httpCalls, bodyOpen, d, parsed, i, fpath,
                    filenames, openRc, outFile, dirs, files, fsErrors, touched >>

(***************************************************************************)
(* RootCmd.Run, lines 71-158.                                              *)
(***************************************************************************)
\* Lines 72-76: http.Get; log.Fatal on a transport error.
HttpGet ==
    /\ pc = "get"
    /\ httpCalls' = httpCalls + 1
    /\ \E ok \in BOOLEAN :
          IF ok THEN bodyOpen' = TRUE /\ pc' = "read"
          ELSE bodyOpen' = FALSE /\ pc' = "fatal"
    /\ UNCHANGED << config, panicErr, decoder, encoder, d, parsed, i, fpath, filenames,
                    openRc, outFile, dirs, files, fsErrors, touched >>

\* Lines 77-81: ioutil.ReadAll of the whole body; log.Fatal on an error.
ReadAll ==
    /\ pc = "read"
    /\ \E ok \in BOOLEAN :
          IF ok THEN /\ d' = [got |-> TRUE, zip |-> remote.zip, File |-> remote.File]
                     /\ pc' = "parse"
          ELSE d' = d /\ pc' = "fatal"
    /\ UNCHANGED << config, panicErr, decoder, encoder, httpCalls, bodyOpen, parsed, i,
                    fpath, filenames, openRc, outFile, dirs, files, fsErrors,
                    touched >>

\* zip.NewReader with its error dropped: the loop runs on whatever it got.
NewReaderErrorDropped ==
    /\ pc = "parse"
    /\ parsed' = d.zip
    /\ i' = 1
    /\ pc' = "loop"
    /\ UNCHANGED << config, panicErr, decoder, encoder, httpCalls, bodyOpen,
                    d, fpath, filenames, openRc, outFile, dirs, files,
                    fsErrors, touched >>

\* Lines 85-89 (and 153-155): zip.NewReader on the downloaded bytes.
NewReader ==
    /\ pc = "parse"
    /\ IF d.zip
       THEN parsed' = TRUE /\ i' = 1 /\ pc' = "loop"
       ELSE parsed' = FALSE /\ i' = i /\ pc' = "fatal"
    /\ UNCHANGED << config, panicErr, decoder, encoder, httpCalls, bodyOpen, d, fpath,
                    filenames, openRc, outFile, dirs, files, fsErrors, touched >>

\* Lines 93-97: f.Open() and the deferred rc.Close(), which runs when the
\* enclosing function returns.
EntryOpen ==
    /\ pc = "loop"
    /\ i <= Len(d.File)
    /\ \E ok \in BOOLEAN :
          IF ok THEN openRc' = openRc \cup { i } /\ pc' = "resolve"
          ELSE openRc' = {} /\ pc' = "fatal"
    /\ UNCHANGED << config, panicErr, decoder, encoder, httpCalls, bodyOpen, d, parsed,
                    i, fpath, filenames, outFile, dirs, files, fsErrors,
                    touched >>

\* Lines 100-121: resolve the path and record it; a transform error panics,
\* which runs the deferred closes and ends the process.
Resolve ==
    /\ pc = "resolve"
    /\ LET res == ResolvePath(decoder, encoder, outPath, d.File[i])
       IN  IF res.err # "nil"
           THEN /\ pc' = "panic"
                /\ panicErr' = res.err
                /\ openRc' = {}
                /\ bodyOpen' = FALSE
                /\ UNCHANGED << fpath, filenames >>
           ELSE /\ fpath' = res.fpath
                /\ panicErr' = panicErr
                /\ filenames' = Append(filenames, res.fpath)
                /\ pc' = IF d.File[i].IsDir THEN "mkdir" ELSE "mkparents"
                /\ UNCHANGED << openRc, bodyOpen >>
    /\ UNCHANGED << config, decoder, encoder, httpCalls, d, parsed, i,
                    outFile, dirs, files, fsErrors, touched >>

\* An error of the environment (permission denied, disk full) that a file
\* system call may meet besides the errors the file system's state decides.
EnvFails == BOOLEAN

\* Line 126: os.MkdirAll for a directory entry; its error is not looked at.
MkdirEntry ==
    /\ pc = "mkdir"
    /\ \E envFail \in EnvFails :
          LET m == MkdirAll(dirs, files, fpath)
          IN  IF envFail \/ ~m.ok
              THEN /\ fsErrors' = fsErrors \cup { [at |-> i, op |-> "MkdirAll", env |-> envFail] }
                   /\ UNCHANGED << dirs, touched >>
              ELSE /\ dirs' = m.dirs
                   /\ touched' = touched \cup m.made
                   /\ UNCHANGED fsErrors
    /\ i' = i + 1
    /\ pc' = "loop"
    /\ UNCHANGED << config, panicErr, decoder, encoder, httpCalls, bodyOpen, d, parsed,
                    fpath, filenames, openRc, outFile, files >>

\* A file entry whose parent directories are not created.
MkdirParentsSkipped ==
    /\ pc = "mkparents"
    /\ pc' = "open"
    /\ UNCHANGED << config, panicErr, decoder, encoder, httpCalls, bodyOpen,
                    d, parsed, i, fpath, filenames, openRc, outFile, dirs,
                    files, fsErrors, touched >>

\* Lines 131-133: os.MkdirAll of the parent directory of a file entry.
MkdirParents ==
    /\ pc = "mkparents"
    /\ \E envFail \in EnvFails :
          LET m == MkdirAll(dirs, files, Dir(fpath))
          IN  IF envFail \/ ~m.ok
              THEN /\ fsErrors' = fsErrors \cup { [at |-> i, op |-> "MkdirAll", env |-> envFail] }
                   /\ openRc' = {}
                   /\ pc' = "fatal"
                   /\ UNCHANGED << dirs, touched >>
              ELSE /\ dirs' = m.dirs
                   /\ touched' = touched \cup m.made
                   /\ pc' = "open"
                   /\ UNCHANGED << fsErrors, openRc >>
    /\ UNCHANGED << config, panicErr, decoder, encoder, httpCalls, bodyOpen, d, parsed,
                    i, fpath, filenames, outFile, files >>

\* Lines 135-138: os.OpenFile with the entry's mode.
OpenOutFile ==
    /\ pc = "open"
    /\ \E envFail \in EnvFails :
          LET o == OpenFile(dirs, files, umask, privileged, fpath,
                            d.File[i].Mode)
          IN  IF envFail \/ ~o.ok
              THEN /\ fsErrors' = fsErrors \cup { [at |-> i, op |-> "OpenFile", env |-> envFail] }
                   /\ openRc' = {}
                   /\ pc' = "fatal"
                   /\ UNCHANGED << files, touched, outFile >>
              ELSE /\ files' = o.files
                   /\ touched' = touched \cup { fpath }
                   /\ outFile' = outFile \cup { fpath }
                   /\ pc' = "copy"
                   /\ UNCHANGED << fsErrors, openRc >>
    /\ UNCHANGED << config, panicErr, decoder, encoder, httpCalls, bodyOpen, d, parsed,
                    i, fpath, filenames, dirs >>

\* Lines 140-147: io.Copy, outFile.Close(), and the return on a copy error.
CopyClose ==
    /\ pc = "copy"
    /\ outFile' = outFile \ { fpath }
    /\ \E ok \in BOOLEAN :
          IF ok
          THEN /\ files' = [files EXCEPT ![fpath].data = d.File[i].Content]
               /\ i' = i + 1
               /\ pc' = "loop"
               /\ UNCHANGED << fsErrors, openRc >>
          ELSE /\ files' = [files EXCEPT ![fpath].data = "partial"]
               /\ fsErrors' = fsErrors \cup { [at |-> i, op |-> "Copy", env |-> TRUE] }
               /\ openRc' = {}
               /\ pc' = "fatal"
               /\ i' = i
    /\ UNCHANGED << config, panicErr, decoder, encoder, httpCalls, bodyOpen, d, parsed,
                    fpath, filenames, dirs, touched >>

\* Lines 151-157: the loop is over; the function returns (closing every
\* deferred rc), the list is printed and Run returns (closing res.Body).
Finish ==
    /\ pc = "loop"
    /\ i > Len(d.File)
    /\ openRc' = {}
    /\ bodyOpen' = FALSE
    /\ pc' = "done"
    /\ UNCHANGED << config, panicErr, decoder, encoder, httpCalls, d, parsed, i, fpath,
                    filenames, outFile, dirs, files, fsErrors, touched >>

Next ==
    \/ Args
    \/ HttpGet
    \/ ReadAll
    \/ NewReader
    \/ EntryOpen
    \/ Resolve
    \/ MkdirEntry
    \/ MkdirParents
    \/ OpenOutFile
    \/ CopyClose
    \/ Finish

Spec == Init /\ [][Next]_vars

(***************************************************************************)
(* Properties.                                                             *)
(***************************************************************************)
\* p is the directory root or lies below it.
Under(root, p) == p = root \/ IsPrefix(root \o Slash, p)

\* C1: every directory or file the run creates or truncates is at a path
\* below the configured output root.
C1_WritesBelowRoot == \A p \in touched : Under(outPath, p)

\* C2: a failed file system call at entry k ends the run at entry k in the
\* error state: no later entry is resolved or materialized.
C2_FsErrorAborts ==
    \A e \in fsErrors : pc = "fatal" /\ i = e.at /\ Len(filenames) = e.at

\* Two names are equal when compared without regard to ASCII letter case.
FoldByte(b) == IF b >= 65 /\ b <= 90 THEN b + 32 ELSE b
EqualFold(a, b) ==
    Len(a) = Len(b) /\ \A k \in 1..Len(a) : FoldByte(a[k]) = FoldByte(b[k])
Supported(name) ==
    name = << >> \/ \E n \in { N866, NCp866, N1251, NWindows1251 } : EqualFold(name, n)
BadConfig == srcUrl = "" \/ ~Supported(nonUtf8EncName) \/ ~Supported(outEncName)

\* C3: a run ends with a configuration error exactly when the URL is empty
\* or an encoding name is non-empty and not, case-insensitively, one of the
\* four supported names; it then has issued no HTTP request and created no
\* directory or file.
C3_ConfigValidatedFirst ==
    /\ pc # "args" => (pc = "cfgerr" <=> BadConfig)
    /\ BadConfig =>
          /\ pc \in {"args", "cfgerr"}
          /\ httpCalls = 0
          /\ touched = {}
          /\ dirs = EmptyFS.dirs
          /\ files = EmptyFS.files

C3_Witness ==
    /\ pc = "cfgerr"
    /\ srcUrl # ""
    /\ nonUtf8EncName = << 67, 80, 56, 54, 54 >>
    /\ outEncName = << 117, 116, 102, 45, 56 >>

\* C4: at most one entry content stream and one output file handle are
\* open, and no stream of an entry before the current one is open.
C4_StreamsScoped ==
    /\ Cardinality(openRc) <= 1
    /\ Cardinality(outFile) <= 1
    /\ \A k \in openRc : k = i

\* The file system is one a run can start in.
Untouched ==
    /\ touched = {}
    /\ \E env \in Environments : dirs = env.fs.dirs /\ files = env.fs.files

\* C5: fetch, parse and extraction run in this order: the archive is parsed
\* only from a completely read body, an entry is processed only after the
\* archive was parsed, and a run whose fetch failed or whose body is no ZIP
\* archive ends in the error state with nothing parsed or written.
C5_StagesInOrder ==
    /\ d.got => httpCalls = 1
    /\ parsed => d.got /\ d.zip
    /\ (i >= 1 \/ filenames # << >> \/ openRc # {} \/ outFile # {}) => parsed
    /\ ~parsed => Untouched
    /\ (pc \in {"parse", "loop", "resolve", "mkdir", "mkparents", "open", "copy", "done"})
          => d.got
    /\ (d.got /\ ~d.zip) => pc \in {"parse", "fatal"}
    /\ (httpCalls = 1 /\ ~d.got) => pc \in {"read", "fatal"}

C5_Witness ==
    /\ pc = "fatal"
    /\ d.got
    /\ ~d.zip

RECURSIVE DecodeText(_, _, _)
\* The text of a byte string in a code page.
DecodeText(tab, s, k) ==
    IF k > Len(s) THEN << >>
    ELSE (IF s[k] < 128 THEN << s[k] >> ELSE Utf8Enc(tab[s[k] - 127]))
         \o DecodeText(tab, s, k + 1)

RECURSIVE EncodeText(_, _, _)
\* The bytes of a text in a code page (a rune outside it becomes "?").
EncodeText(tab, s, k) ==
    IF k > Len(s) THEN << >>
    ELSE LET r == DecodeRuneAt(s, k)
         IN  << IF r.r < 128 THEN r.r
                ELSE IF \E b \in 1..128 : tab[b] = r.r
                     THEN 127 + (CHOOSE b \in 1..128 : tab[b] = r.r)
                     ELSE 63 >>
             \o EncodeText(tab, s, k + r.size)

TableOf(name) ==
    IF EqualFold(name, N866) \/ EqualFold(name, NCp866) THEN CodePage866
    ELSE Windows1251

\* encode(lowercase(join(root, n))) of an entry, n being the decoded name
\* of a flagged entry and the stored name of any other.
ExpectedPath(f) ==
    LET n == IF f.NonUTF8 /\ nonUtf8EncName # << >>
             THEN DecodeText(TableOf(nonUtf8EncName), f.Name, 1)
             ELSE f.Name
        low == ToLower(Join(outPath, n))
    IN  IF outEncName = << >> THEN low
        ELSE EncodeText(TableOf(outEncName), low, 1)

\* "/out/файл.txt" in UTF-8.
POutFajl ==
    << 47, 111, 117, 116, 47, 209, 132, 208, 176, 208, 185, 208, 187,
       46, 116, 120, 116 >>

\* C6: the resolved path of every entry is encode(lowercase(join(root, n)));
\* "ФАЙЛ.TXT" in Windows-1251, flagged, with input encoding "1251", no
\* output encoding and root /out resolves to /out/файл.txt.
C6_ResolvedPath ==
    \A k \in 1..Len(filenames) :
        /\ filenames[k] = ExpectedPath(d.File[k])
        /\ (/\ d.File[k] = EFileCyr
            /\ nonUtf8EncName = N1251
            /\ outEncName = << >>
            /\ outPath = POut) => filenames[k] = POutFajl

C6_Witness ==
    /\ Len(filenames) >= 1
    /\ d.File[1] = EFileCyr
    /\ nonUtf8EncName = N1251
    /\ outEncName = << >>
    /\ outPath = POut
    /\ filenames[1] = POutFajl

\* C7: when the output file of a file entry is about to be opened or is
\* open, every parent directory of its path exists; a successful run on
\* "sub/" and "sub/a.txt", in either order or without "sub/", leaves
\* /out/sub a directory and /out/sub/a.txt a file with the entry's content.
C7_ParentsBeforeOpen ==
    /\ pc \in {"open", "copy"} => Prefixes(Dir(fpath)) \subseteq dirs
    /\ (/\ pc = "done"
        /\ d.File \in { << EDirSub, EFileSubA >>, << EFileSubA, EDirSub >>,
                        << EFileSubA >> })
          => /\ POutSub \in dirs
             /\ POutSubA \in DOMAIN files
             /\ POutSubA \notin dirs
             /\ files[POutSubA].data = EFileSubA.Content

C7_Witness ==
    /\ pc = "done"
    /\ d.File = << EFileSubA, EDirSub >>
    /\ umask = {}
    /\ POutSub \in touched
    /\ files[POutSubA].data = "c1"

\* C8: right after a file entry has been materialized, the file at its
\* resolved path has the entry's mode.
C8_ModePreserved ==
    (pc = "loop" /\ i > 1 /\ ~d.File[i - 1].IsDir)
        => files[filenames[i - 1]].mode = d.File[i - 1].Mode

\* Entry k is the last one, in archive order, resolving to its path, and
\* another entry resolves to that path too.
LastOfCollision(k) ==
    /\ \E j \in 1..Len(filenames) : j # k /\ filenames[j] = filenames[k]
    /\ \A j \in (k + 1)..Len(filenames) : filenames[j] # filenames[k]

\* C9: no file system call fails because an earlier entry resolved to the
\* same path, and after a successful run each path several entries resolve
\* to holds what the last of them makes: its directory, or a file with its
\* content.
C9_LastWriteWins ==
    /\ \A e \in fsErrors :
          e.env \/ \A j \in 1..(e.at - 1) : filenames[j] # filenames[e.at]
    /\ pc = "done" =>
          \A k \in 1..Len(filenames) :
              LastOfCollision(k) =>
                  IF d.File[k].IsDir THEN filenames[k] \in dirs
                  ELSE /\ filenames[k] \in DOMAIN files
                       /\ files[filenames[k]].data = d.File[k].Content

\* File entry k is the last file entry resolving to its path, and another
\* file entry resolves to that path too.
LastFileOfCollision(k) ==
    /\ ~d.File[k].IsDir
    /\ \E j \in 1..Len(filenames) :
          j # k /\ ~d.File[j].IsDir /\ filenames[j] = filenames[k]
    /\ \A j \in (k + 1)..Len(filenames) :
          d.File[j].IsDir \/ filenames[j] # filenames[k]

\* C9 (amended): a file entry whose path an earlier file entry resolved to
\* is refused by the file system only when the file there is not writable,
\* and after a successful run each path several file entries resolve to is
\* a file with the content of the last of them.
C9_LastFileWriteWins ==
    /\ \A e \in fsErrors :
          (/\ ~e.env
           /\ ~d.File[e.at].IsDir
           /\ \E j \in 1..(e.at - 1) :
                 ~d.File[j].IsDir /\ filenames[j] = filenames[e.at])
              => /\ filenames[e.at] \in DOMAIN files
                 /\ "uw" \notin files[filenames[e.at]].mode
    /\ pc = "done" =>
          \A k \in 1..Len(filenames) :
              LastFileOfCollision(k) =>
                  /\ filenames[k] \in DOMAIN files
                  /\ files[filenames[k]].data = d.File[k].Content

C9_Witness ==
    /\ pc = "done"
    /\ d.File = << EFileSubA, EFileSubAUpper >>
    /\ filenames[1] = filenames[2]
    /\ files[filenames[2]].data = "c2"

\* C10: no transform runs out of its buffer of twice the input length, and
\* a run whose transform failed has produced no path for that entry and
\* processed no later entry.
C10_BufferSuffices ==
    /\ panicErr # "ErrShortDst"
    /\ pc = "panic" => Len(filenames) = i - 1

=============================================================================
